---- MODULE Spec2Model ----
(***************************************************************************)
(* A model of get_bridge_logs.py: ArchiverBridgeLogRetriever (the          *)
(* authenticate/authorize handshake, get_device_info, create_dirs,         *)
(* pull_logs with its nested convert_dt_to_een_time) and the __main__      *)
(* script that drives them.                                                *)
(*                                                                         *)
(* The servers, the operator's inputs, the file system the script is       *)
(* started in and the C library behind strftime are the environment: each  *)
(* is a nondeterministic choice from a small set.  Text is a sequence of   *)
(* one-character strings, a dict is a sequence of <<key, value>> pairs (a  *)
(* Python dict keeps insertion order) or a set of such pairs, a path is a  *)
(* sequence of components.  Console output is kept only where a claim      *)
(* reads it (the per-category report of pull_logs, the report of           *)
(* get_device_info); the spinner and the timing prints are left out.       *)
(***************************************************************************)
EXTENDS Integers, Sequences, FiniteSets, TLC

VARIABLES
    pc,               \* position of the process: see PcValues
    requests,         \* every HTTP request issued so far, in order
    responses,        \* the status each request was answered with (0: it raised)
    auth_key,         \* self.auth_key ("" until authorize stores the cookie)
    auth_base_url,    \* self.auth_base_url ("" until authorize derives it)
    DeviceInfo,       \* the attributes of the class object DeviceInfo
    held,             \* per returned get_device_info call: the reference it
                      \* returned and the values its own response gave
    lastCall,         \* the latest get_device_info call: response and outcome
    dirs,             \* directories that exist
    files,            \* files that exist: set of <<path, content>>
    pl,               \* the frame of the running / latest pull_logs call
    console,          \* per-category reports printed by pull_logs
    a_selection,      \* __main__: the operator's accepted archiver selection
    start_dt,         \* __main__: the start time entered
    end_dt,           \* __main__: the end time entered
    launchedInPlace,  \* the script's directory is the working directory
    libcPadsYear,     \* the platform's strftime zero-pads %Y to 4 digits
    dt_in,            \* convert_dt_to_een_time: the datetime handed in
    dt_een            \* convert_dt_to_een_time: the text returned

vars == << pc, requests, responses, auth_key, auth_base_url, DeviceInfo, held,
           lastCall, dirs, files, pl, console, a_selection, start_dt, end_dt,
           launchedInPlace, libcPadsYear, dt_in, dt_een >>

(***************************************************************************)
(* Bounds of the model.                                                    *)
(***************************************************************************)
MaxLines == 2        \* lines streamed by one log response
MaxResolves == 2     \* get_device_info calls of one process (API use)
MaxPulls == 1        \* pull_logs calls of one process (API use)

(***************************************************************************)
(* Small helpers.                                                          *)
(***************************************************************************)
Range(s) == { s[i] : i \in 1..Len(s) }

Min(a, b) == IF a < b THEN a ELSE b

SeqsUpTo(S, n) == UNION { [1..k -> S] : k \in 0..n }

Keys(pairs) == { p[1] : p \in pairs }

RECURSIVE Concat(_)
Concat(ss) == IF ss = << >> THEN << >> ELSE Head(ss) \o Concat(Tail(ss))

(***************************************************************************)
(* Positions of the process.                                               *)
(*   start        before ArchiverBridgeLogRetriever(username, password)    *)
(*   constructed  the object exists; its methods may be called             *)
(*   select, start_time, end_time, pull   the prompts of __main__          *)
(*   pulling      inside pull_logs, between two categories                 *)
(*   exit0/exit1  sys.exit(0) / sys.exit(1)                                *)
(*   raised       an exception escaped to the interpreter (traceback,      *)
(*                exit status 1)                                           *)
(***************************************************************************)
PcValues == { "start", "constructed", "select", "start_time", "end_time",
              "pull", "pulling", "exit0", "exit1", "raised" }

Exited == pc \in { "exit0", "exit1", "raised" }

(***************************************************************************)
(* HTTP.  requests.Response.raise_for_status raises HTTPError exactly for  *)
(* the 4xx and 5xx statuses, and Response.ok is its negation; a 1xx or 3xx *)
(* response that the library hands back (a 3xx without a Location header   *)
(* is not followed) passes both.                                           *)
(***************************************************************************)
HttpStatuses == { 200, 302, 403, 500 }

raise_for_status(status) == 400 <= status /\ status < 600

Is2xx(status) == 200 <= status /\ status < 300

Req(kind, host, c, t, e, l) ==
    [ kind |-> kind, host |-> host, c |-> c, t |-> t, e |-> e, l |-> l ]

PlainReq(kind) == Req(kind, "", "", << >>, << >>, "")

Esns == { "e1", "e2" }
Archivers == { "a1", "a2" }
States == { "ATTD", "IDLE" }

NoFrame == [ calls |-> 0, caller |-> "", ref |-> "", a |-> 0,
             archiver_name |-> "", st |-> << >>, et |-> << >>, cat |-> 1,
             got |-> << >>, opened |-> {}, before |-> {}, error |-> "" ]

NoCall == [ n |-> 0, err |-> FALSE, status |-> 0, shape |-> "none",
            result |-> "none", report |-> "none" ]

Status(r) == IF r.err THEN 0 ELSE r.status

NoDateTime == [ Y |-> 0, m |-> 0, d |-> 0, H |-> 0, M |-> 0, S |-> 0, f |-> 0 ]

ScriptRoot == << "script_dir", "bridge_logs" >>
CwdRoot == << ".", "bridge_logs" >>

\* The directory a path names: the script's directory and "." are one
\* directory when the script is started from its own directory.
Canon(inPlace, p) ==
    IF inPlace /\ p[1] = "script_dir" THEN << "." >> \o Tail(p) ELSE p

OldContent == << "o", "l", "d", "\n" >>

InitProgram ==
    /\ pc = "start"
    /\ requests = << >>
    /\ responses = << >>
    /\ auth_key = ""
    /\ auth_base_url = ""
    /\ DeviceInfo = [ assigned |-> {}, esn |-> "", disk_ips |-> << >>,
                      archivers |-> << >>, archiver_states |-> {} ]
    /\ held = << >>
    /\ lastCall = NoCall
    /\ pl = NoFrame
    /\ console = << >>
    /\ a_selection = 0
    /\ start_dt = NoDateTime
    /\ end_dt = NoDateTime
    /\ dt_in = NoDateTime
    /\ dt_een = << >>

\* The environment the process is started in: how the script is launched,
\* which of the two bridge_logs directories exist, whether a log file of an
\* earlier run is there, and the C library.
OldFile == << CwdRoot \o << << "e1", "a1", "stream" >> >>, OldContent >>

EnvAny ==
    /\ launchedInPlace \in BOOLEAN
    /\ libcPadsYear \in BOOLEAN
    /\ dirs \in SUBSET { Canon(launchedInPlace, ScriptRoot), CwdRoot }
    /\ files \in { f \in { {}, { OldFile } } : f = {} \/ CwdRoot \in dirs }

\* One environment, for the operations that read none of it.
EnvPlain ==
    /\ launchedInPlace = TRUE
    /\ libcPadsYear = TRUE
    /\ dirs = {}
    /\ files = {}

(***************************************************************************)
(* __init__ -> authenticate -> authorize.                                  *)
(***************************************************************************)
AuthOutcomes ==
    { [ err |-> TRUE, status |-> 0, token |-> FALSE ] } \cup
    [ err : { FALSE }, status : HttpStatuses, token : BOOLEAN ]

AuthzOutcomes ==
    { [ err |-> TRUE, status |-> 0, cookie |-> FALSE, subdomain |-> FALSE ] } \cup
    [ err : { FALSE }, status : HttpStatuses, cookie : BOOLEAN, subdomain : BOOLEAN ]

\* authenticate up to the call of authorize: the POST returns, raise_for_status
\* passes and the body is JSON holding "token".
AuthenticatePasses(r) ==
    /\ ~r.err
    /\ ~raise_for_status(r.status)
    /\ r.token

\* authorize: the POST returns, raise_for_status passes, the cookie auth_key
\* and the body's active_brand_subdomain are there.
AuthorizePasses(r) ==
    /\ ~r.err
    /\ ~raise_for_status(r.status)
    /\ r.cookie
    /\ r.subdomain

Construct(r1, r2) ==
    /\ pc = "start"
    /\ IF ~AuthenticatePasses(r1)
       THEN /\ requests' = Append(requests, PlainReq("authenticate"))
            /\ responses' = Append(responses, Status(r1))
            /\ pc' = "raised"
            /\ UNCHANGED << auth_key, auth_base_url >>
       ELSE /\ requests' = requests \o << PlainReq("authenticate"),
                                          PlainReq("authorize") >>
            /\ responses' = responses \o << Status(r1), Status(r2) >>
            /\ IF AuthorizePasses(r2)
               THEN /\ pc' = "constructed"
                    /\ auth_key' = "K"
                    /\ auth_base_url' = "https://sub.eagleeyenetworks.com"
               ELSE /\ pc' = "raised"
                    \* self.auth_key is stored before r.json() and the
                    \* subdomain lookup
                    /\ auth_key' = IF ~r2.err /\ ~raise_for_status(r2.status)
                                      /\ r2.cookie THEN "K" ELSE auth_key
                    /\ UNCHANGED auth_base_url
    /\ UNCHANGED << DeviceInfo, held, lastCall, dirs, files, pl, console,
                    a_selection, start_dt, end_dt, launchedInPlace,
                    libcPadsYear, dt_in, dt_een >>

(***************************************************************************)
(* get_device_info.  The response of the EsnDetails endpoint:              *)
(*   err      s.get raised (no response)                                   *)
(*   status   the HTTP status                                              *)
(*   json     the body parses as JSON                                      *)
(*   data     "missing": no key 'data'; "null": 'data' is null or an       *)
(*            object; "empty": 'data' is []; "list": 'data' has a first    *)
(*            element                                                      *)
(*   missing  the first key of the element that is absent ("type" stands   *)
(*            for type, name and cluster alike), or "none"                 *)
(*   esn, disks_ips, states   the element's fields                         *)
(***************************************************************************)
IpOf == [ a \in Archivers |-> IF a = "a1" THEN "10.0.0.1" ELSE "10.0.0.2" ]

KeySeqs == { << >>, << "a1" >>, << "a1", "a2" >>, << "a2", "a1" >> }

DiskDicts == { [ i \in 1..Len(s) |-> << s[i], IpOf[s[i]] >> ] : s \in KeySeqs }

StateMaps == { m \in SUBSET (Archivers \X States) :
                 \A p, q \in m : p[1] = q[1] => p = q }

RespBase == [ err |-> FALSE, status |-> 200, json |-> TRUE, data |-> "list",
              missing |-> "none", esn |-> "e1", disks_ips |-> << >>,
              states |-> {} ]

\* The statuses of a response whose body get_device_info reads (response.ok).
OkStatuses == { s \in HttpStatuses : ~raise_for_status(s) }

\* The bodies of a response with a first element: every element that has all
\* its keys, and for each absent key the elements that differ in what is read
\* before it.
Elements ==
    { [ RespBase EXCEPT !.esn = e, !.disks_ips = dd, !.states = m ] :
        e \in Esns, dd \in DiskDicts, m \in StateMaps } \cup
    { [ RespBase EXCEPT !.missing = "esn" ] } \cup
    { [ RespBase EXCEPT !.missing = k, !.esn = e ] :
        k \in { "type", "disks_ips" }, e \in Esns } \cup
    { [ RespBase EXCEPT !.missing = "states", !.esn = e, !.disks_ips = dd ] :
        e \in Esns, dd \in DiskDicts }

DeviceResponses ==
    { [ RespBase EXCEPT !.err = TRUE, !.status = 0 ] } \cup
    { [ RespBase EXCEPT !.status = s ] : s \in HttpStatuses \ OkStatuses } \cup
    { [ RespBase EXCEPT !.status = s, !.json = FALSE ] : s \in OkStatuses } \cup
    { [ RespBase EXCEPT !.status = s, !.data = d ] :
        s \in OkStatuses, d \in { "missing", "null", "empty" } } \cup
    Elements \cup
    { [ RespBase EXCEPT !.status = 302, !.disks_ips = dd, !.states = m ] :
        dd \in { << << "a1", IpOf["a1"] >> >> }, m \in { {}, { << "a1", "IDLE" >> } } }

\* What is wrong with the body of a response, if anything.
Shape(r) ==
    IF r.err THEN "no_response"
    ELSE IF ~r.json THEN "not_json"
    ELSE IF r.data = "missing" THEN "data_missing"
    ELSE IF r.data = "null" THEN "data_null"
    ELSE IF r.data = "empty" THEN "data_empty"
    ELSE IF r.missing # "none" THEN "key_missing"
    ELSE IF ~(Range([ i \in 1..Len(r.disks_ips) |-> r.disks_ips[i][1] ])
                \subseteq Keys(r.states)) THEN "state_missing"
    ELSE "well_formed"

\* a_list: the keys of disks_ips, appended one by one in iteration order.
RECURSIVE a_list(_)
a_list(disks_ips) ==
    IF disks_ips = << >> THEN << >>
    ELSE << Head(disks_ips)[1] >> \o a_list(Tail(disks_ips))

\* A lookup that skips an archiver without a state instead of raising.
StatesFound_Skipping(archivers, states) == TRUE

\* json_result['states'][a]['state'] is there for every archiver of the list.
StatesFound(archivers, states) == Range(archivers) \subseteq Keys(states)

\* a_states: one entry per archiver of the list, looked up under 'states'.
a_states(archivers, states) ==
    { p \in states : p[1] \in Range(archivers) }

\* The exception the body of the try block raises, or "none".
\*   json() fails, 'data' absent or not a sequence, a key of the element
\*   absent, a state absent: an Exception other than IndexError
\*   'data' == []: IndexError from ['data'][0]
ResolveRaises(r) ==
    IF r.err THEN "Exception"
    ELSE IF ~r.json THEN "Exception"
    ELSE IF r.data \in { "missing", "null" } THEN "Exception"
    ELSE IF r.data = "empty" THEN "IndexError"
    ELSE IF r.missing # "none" THEN "Exception"
    ELSE IF ~StatesFound(a_list(r.disks_ips), r.states) THEN "Exception"
    ELSE "none"

\* The except clauses swapped: every exception gets the 'Check ESN' report.
HandlerReport_AlwaysCheckEsn(exc) == "check_esn"

\* What the except clauses print before sys.exit(1).
HandlerReport(exc) ==
    IF exc = "IndexError" THEN "check_esn" ELSE "exception"

\* The attributes of the class the try block assigns before it returns or
\* raises: di = DeviceInfo binds the class itself, so every di.x = ... is an
\* assignment to a class attribute.
FieldOrder == << "esn", "type", "name", "cluster", "disks_ips", "states" >>

Position(k) == CHOOSE i \in 1..Len(FieldOrder) : FieldOrder[i] = k

Reads(r, k) ==
    /\ ~r.err /\ ~raise_for_status(r.status) /\ r.json /\ r.data = "list"
    /\ (r.missing = "none" \/ Position(k) < Position(r.missing))

AssignClass(cls, r) ==
    [ assigned |-> cls.assigned
           \cup { k \in { "esn", "type", "name", "cluster" } : Reads(r, k) }
           \cup (IF Reads(r, "disks_ips") THEN { "disk_ips", "archivers" } ELSE {})
           \cup (IF ResolveRaises(r) = "none" /\ ~raise_for_status(r.status)
                 THEN { "archiver_states" } ELSE {}),
      esn |-> IF Reads(r, "esn") THEN r.esn ELSE cls.esn,
      disk_ips |-> IF Reads(r, "disks_ips") THEN r.disks_ips ELSE cls.disk_ips,
      archivers |-> IF Reads(r, "disks_ips") THEN a_list(r.disks_ips)
                    ELSE cls.archivers,
      archiver_states |->
          IF ResolveRaises(r) = "none" /\ ~raise_for_status(r.status)
          THEN a_states(a_list(r.disks_ips), r.states)
          ELSE cls.archiver_states ]

\* The object a reference names.  The only object get_device_info ever hands
\* out is the class DeviceInfo.
Deref(ref) == DeviceInfo

Call(r, n, result, report) ==
    [ n |-> n, err |-> r.err, status |-> r.status, shape |-> Shape(r),
      result |-> result, report |-> report ]

get_device_info(esn, r, nextpc) ==
    /\ requests' = Append(requests, Req("device_info", "nexus", esn, << >>, << >>, ""))
    /\ responses' = Append(responses, Status(r))
    /\ IF ~r.err /\ raise_for_status(r.status)
       THEN \* not response.ok: sys.exit(1) inside the try block; SystemExit is
            \* no Exception, so no except clause catches it
            /\ pc' = "exit1"
            /\ lastCall' = Call(r, lastCall.n + 1, "exit1",
                                IF r.status = 403 THEN "status_vpn" ELSE "status")
            /\ UNCHANGED << DeviceInfo, held >>
       ELSE IF ResolveRaises(r) # "none"
       THEN /\ pc' = "exit1"
            /\ lastCall' = Call(r, lastCall.n + 1, "exit1",
                                HandlerReport(ResolveRaises(r)))
            /\ DeviceInfo' = AssignClass(DeviceInfo, r)
            /\ UNCHANGED held
       ELSE /\ pc' = nextpc
            /\ lastCall' = Call(r, lastCall.n + 1, "returned", "none")
            /\ DeviceInfo' = AssignClass(DeviceInfo, r)
            /\ held' = Append(held,
                   [ ref |-> "DeviceInfo", esn |-> r.esn,
                     archivers |-> a_list(r.disks_ips),
                     archiver_states |-> a_states(a_list(r.disks_ips), r.states) ])
    /\ UNCHANGED << auth_key, auth_base_url, dirs, files, pl, console,
                    a_selection, start_dt, end_dt, launchedInPlace,
                    libcPadsYear, dt_in, dt_een >>

\* A caller of the class calls get_device_info on the constructed object.
ApiResolve(esn, r) ==
    /\ pc = "constructed"
    /\ Len(held) < MaxResolves
    /\ get_device_info(esn, r, "constructed")

(***************************************************************************)
(* convert_dt_to_een_time: dt.strftime('%Y%m%d%H%M%S.%f')[:18].            *)
(* %m %d %H %M %S are two digits and %f six, zero-padded.  %Y is the year  *)
(* as the platform's C library prints it: four digits zero-padded on some  *)
(* platforms, the bare decimal number (year 5 gives "5") on others.        *)
(***************************************************************************)
SliceEnd == 18

DigitChars == << "0", "1", "2", "3", "4", "5", "6", "7", "8", "9" >>

RECURSIVE Dec(_)
Dec(n) == IF n < 10 THEN << DigitChars[n + 1] >>
          ELSE Dec(n \div 10) \o << DigitChars[(n % 10) + 1] >>

ZeroPad(n, w) ==
    LET d == Dec(n) IN [ i \in 1..(w - Len(d)) |-> "0" ] \o d

strftime(dt, padsYear) ==
    (IF padsYear THEN ZeroPad(dt.Y, 4) ELSE Dec(dt.Y))
    \o ZeroPad(dt.m, 2) \o ZeroPad(dt.d, 2) \o ZeroPad(dt.H, 2)
    \o ZeroPad(dt.M, 2) \o ZeroPad(dt.S, 2) \o << "." >> \o ZeroPad(dt.f, 6)

convert_dt_to_een_time(dt) ==
    LET text == strftime(dt, libcPadsYear)
    IN  SubSeq(text, 1, Min(SliceEnd, Len(text)))

(***************************************************************************)
(* create_dirs.  bridge_logs is made next to the script when it is not     *)
(* there; an exception of os.mkdir is printed and swallowed.  The second   *)
(* test reads `if not os.path.exists:`, the function object itself, which  *)
(* is never false: the per-device directory is never made.                 *)
(***************************************************************************)
BridgeEsnDir(bridge_esn) == ScriptRoot \o << bridge_esn >>

NotOsPathExists == FALSE

create_dirs(ds, bridge_esn, mkdirFails) ==
    LET root == Canon(launchedInPlace, ScriptRoot)
        esn_dir == Canon(launchedInPlace, BridgeEsnDir(bridge_esn))
    IN  IF root \notin ds /\ mkdirFails THEN ds
        ELSE (ds \cup { root }) \cup (IF NotOsPathExists THEN { esn_dir } ELSE {})

(***************************************************************************)
(* pull_logs.                                                              *)
(***************************************************************************)
Categories == << "bridge", "stream", "analog", "preview" >>

\* The index of a Python list subscript, 1-based, or 0 for IndexError:
\* a negative subscript counts from the end of the list.
PyIndex(list, a) ==
    IF 0 <= a /\ a < Len(list) THEN a + 1
    ELSE IF a < 0 /\ -Len(list) <= a THEN Len(list) + a + 1
    ELSE 0

\* str(line) of a bytes object: the text of its literal, b'...', a backslash
\* doubled.  (The bytes of LogLines hold no quote and no unprintable byte.)
PyStrOfBytes(line) ==
    << "b", "'" >>
    \o Concat([ i \in 1..Len(line) |->
                  IF line[i] = "\\" THEN << "\\", "\\" >> ELSE << line[i] >> ])
    \o << "'" >>

\* What the loop over iter_lines writes: str(line) + '\n' for each line.
Written(body) ==
    Concat([ i \in 1..Len(body) |-> PyStrOfBytes(body[i]) \o << "\n" >> ])

\* os.path.join('.', f'bridge_logs/{di.esn}.{archiver_name}_{t}.log')
log_path(esn, archiver_name, t) == CwdRoot \o << << esn, archiver_name, t >> >>

Parent(path) == SubSeq(path, 1, Len(path) - 1)

LogLines == { << "a" >>, << "a", "\\" >> }

LogOutcomes ==
    { [ err |-> TRUE, status |-> 0, body |-> << >> ] } \cup
    { [ err |-> FALSE, status |-> 500, body |-> << >> ] } \cup
    { [ err |-> FALSE, status |-> 200, body |-> b ] : b \in SeqsUpTo(LogLines, MaxLines) }

DateTime(Y, m, d, H, M, S, f) ==
    [ Y |-> Y, m |-> m, d |-> d, H |-> H, M |-> M, S |-> S, f |-> f ]

\* pull_logs up to the loop: create_dirs, the two conversions and the
\* subscript di.archivers[a].
PullLogsBegin(caller, ref, a, st, et, mkdirFails) ==
    LET di == Deref(ref)
        i == PyIndex(di.archivers, a)
    IN  /\ dirs' = create_dirs(dirs, di.esn, mkdirFails)
        /\ pl' = [ calls |-> pl.calls + 1, caller |-> caller, ref |-> ref,
                   a |-> a,
                   archiver_name |-> IF i = 0 THEN "" ELSE di.archivers[i],
                   st |-> convert_dt_to_een_time(st),
                   et |-> convert_dt_to_een_time(et),
                   cat |-> 1, got |-> << >>, opened |-> {}, before |-> files,
                   error |-> IF i = 0 THEN "IndexError" ELSE "" ]
        /\ pc' = IF i = 0 THEN "raised" ELSE "pulling"
        /\ console' = << >>
        /\ UNCHANGED << requests, responses, auth_key, auth_base_url,
                        DeviceInfo, held, lastCall, files, a_selection,
                        start_dt, end_dt, launchedInPlace, libcPadsYear,
                        dt_in, dt_een >>

\* One pass of the loop over the categories; after the last one pull_logs
\* returns (and __main__ ends with sys.exit(0)).  A response is either an
\* exception of requests.get or a status with all its lines; a stream that
\* breaks while iter_lines reads it is left out.
FetchLog(out) ==
    LET di == Deref(pl.ref)
        t == Categories[pl.cat]
        \* the url is built from di.archivers[a], the path from archiver_name
        host == di.archivers[PyIndex(di.archivers, pl.a)]
        path == log_path(di.esn, pl.archiver_name, t)
        after == IF pl.cat < Len(Categories) THEN "pulling"
                 ELSE IF pl.caller = "main" THEN "exit0" ELSE "constructed"
    IN  /\ pc = "pulling"
        /\ requests' = Append(requests, Req("log", host, di.esn, pl.st, pl.et, t))
        /\ responses' = Append(responses, Status(out))
        /\ IF out.err
           THEN \* requests.get raised: nothing in pull_logs or __main__ catches it
                /\ pc' = "raised"
                /\ pl' = [ pl EXCEPT !.got = Append(@, out), !.error = "RequestException" ]
                /\ UNCHANGED << files, console >>
           ELSE IF out.status = 200 /\ Parent(path) \notin dirs
           THEN \* open(log_path, "w") in a directory that is not there
                /\ pc' = "raised"
                /\ pl' = [ pl EXCEPT !.got = Append(@, out), !.error = "FileNotFoundError" ]
                /\ UNCHANGED << files, console >>
           ELSE IF out.status = 200
           THEN /\ pc' = after
                /\ files' = { f \in files : f[1] # path }
                              \cup { << path, Written(out.body) >> }
                /\ console' = Append(console,
                       [ l |-> t, kind |-> "lines", status |-> 200,
                         path |-> path, count |-> Len(out.body) ])
                /\ pl' = [ pl EXCEPT !.got = Append(@, out), !.cat = @ + 1,
                                     !.opened = @ \cup { path } ]
           ELSE /\ pc' = after
                /\ console' = Append(console,
                       [ l |-> t, kind |-> "status", status |-> out.status,
                         path |-> << >>, count |-> 0 ])
                /\ pl' = [ pl EXCEPT !.got = Append(@, out), !.cat = @ + 1 ]
                /\ UNCHANGED files
        /\ UNCHANGED << auth_key, auth_base_url, DeviceInfo, held, lastCall,
                        dirs, a_selection, start_dt, end_dt,
                        launchedInPlace, libcPadsYear, dt_in, dt_een >>

\* A caller of the class calls pull_logs with a record get_device_info
\* returned and any index.
IndexInputs == -3 .. 2

PullStart == DateTime(2024, 3, 5, 14, 30, 0, 123456)
PullEnd == DateTime(2024, 3, 6, 0, 0, 59, 0)

ApiPull(h, a, mkdirFails) ==
    /\ pc = "constructed"
    /\ h \in 1..Len(held)
    /\ pl.calls < MaxPulls
    /\ PullLogsBegin("api", held[h].ref, a, PullStart, PullEnd, mkdirFails)

ConstructAny == \E r1 \in AuthOutcomes, r2 \in AuthzOutcomes : Construct(r1, r2)

\* The server answers with the identifier it was asked for.
ResolveAny == \E r \in DeviceResponses : ApiResolve(r.esn, r)

NextResolve == ConstructAny \/ ResolveAny

InitResolve == InitProgram /\ EnvPlain

SpecResolve == InitResolve /\ [][NextResolve]_vars

\* The records the log retrieval is exercised on.
PullDevices ==
    { r \in Elements :
        /\ r.missing = "none"
        /\ r.esn = "e1"
        /\ r.disks_ips # << >>
        /\ r.states = { << "a1", "ATTD" >>, << "a2", "IDLE" >> } }

\* Here the caller resolves one device and then retrieves its logs.
PullResolveAny ==
    /\ held = << >>
    /\ \E r \in PullDevices : ApiResolve("e1", r)

PullAny == \E h \in 1..MaxResolves, a \in IndexInputs, mkdirFails \in BOOLEAN :
              ApiPull(h, a, mkdirFails)

FetchAny == \E out \in LogOutcomes : FetchLog(out)

\* pull_logs reads nothing of the handshake but the cookie: one status per
\* outcome of the constructor is enough here.
PullConstructAny ==
    \E r1 \in AuthOutcomes, r2 \in AuthzOutcomes :
        /\ r1.status # 302
        /\ r2.status # 302
        /\ Construct(r1, r2)

NextPull == PullConstructAny \/ PullResolveAny \/ PullAny \/ FetchAny

\* The timestamps of PullStart and PullEnd have four-digit years, which every
\* C library prints alike.
InitPull == InitProgram /\ EnvAny /\ libcPadsYear = TRUE

SpecPull == InitPull /\ [][NextPull]_vars

(***************************************************************************)
(* convert_dt_to_een_time on its own: the function applied to a datetime.  *)
(***************************************************************************)
Years == { 5, 999, 2024, 9999 }
Months == { 1, 3, 12 }
Days == { 1, 5, 31 }
Hours == { 0, 14, 23 }
Minutes == { 0, 30, 59 }
Seconds == { 0, 59 }
Microseconds == { 0, 5, 123456, 999999 }

DateTimes ==
    { DateTime(Y, m, d, H, M, S, f) :
        Y \in Years, m \in Months, d \in Days, H \in Hours, M \in Minutes,
        S \in Seconds, f \in Microseconds }

EncodeTime(dt) ==
    /\ dt_in = NoDateTime
    /\ dt_in' = dt
    /\ dt_een' = convert_dt_to_een_time(dt)
    /\ UNCHANGED << pc, requests, responses, start_dt, end_dt, auth_key,
                    auth_base_url, DeviceInfo, held, lastCall, dirs, files,
                    pl, console, a_selection, launchedInPlace, libcPadsYear >>

NextTime == \E dt \in DateTimes : EncodeTime(dt)

InitTime ==
    /\ InitProgram
    /\ launchedInPlace = TRUE
    /\ libcPadsYear \in BOOLEAN
    /\ dirs = {}
    /\ files = {}

SpecTime == InitTime /\ [][NextTime]_vars

(***************************************************************************)
(* __main__: the constructor, get_device_info, the three prompt loops,     *)
(* pull_logs and sys.exit(0).                                              *)
(***************************************************************************)
\* What the operator types at "Archiver selection: ": text int() rejects, or
\* a number.
SelectionInputs ==
    { [ int |-> FALSE, v |-> 0 ] } \cup [ int : { TRUE }, v : -1 .. 3 ]

\* One pass of the selection loop.  int() failing and a number outside
\* range(len(archivers) + 1) are caught and the prompt repeats; 0 is
\* sys.exit(0), which `except Exception` does not catch.
MainSelect(input) ==
    /\ pc = "select"
    /\ IF ~input.int THEN UNCHANGED << pc, a_selection >>
       ELSE IF input.v = 0 THEN pc' = "exit0" /\ a_selection' = 0
       ELSE IF ~(input.v \in 0 .. Len(Deref(held[1].ref).archivers))
       THEN pc' = pc /\ a_selection' = input.v
       ELSE pc' = "start_time" /\ a_selection' = input.v
    /\ UNCHANGED << requests, responses, start_dt, end_dt, auth_key,
                    auth_base_url, DeviceInfo, held, lastCall, dirs, files,
                    pl, console, launchedInPlace, libcPadsYear, dt_in, dt_een >>

\* What the operator types at a date and time prompt: text strptime rejects,
\* or a date and a time.
TimeInputs(dts) == { [ ok |-> FALSE, dt |-> NoDateTime ] } \cup [ ok : { TRUE }, dt : dts ]

MainStartTime(input) ==
    /\ pc = "start_time"
    /\ IF input.ok THEN pc' = "end_time" /\ start_dt' = input.dt
       ELSE UNCHANGED << pc, start_dt >>
    /\ UNCHANGED << requests, responses, end_dt, auth_key, auth_base_url,
                    DeviceInfo, held, lastCall, dirs, files, pl, console,
                    a_selection, launchedInPlace, libcPadsYear, dt_in, dt_een >>

\* 'c' takes datetime.utcnow(); either way the loop ends with an end time.
MainEndTime(input) ==
    /\ pc = "end_time"
    /\ IF input.ok THEN pc' = "pull" /\ end_dt' = input.dt
       ELSE UNCHANGED << pc, end_dt >>
    /\ UNCHANGED << requests, responses, start_dt, auth_key, auth_base_url,
                    DeviceInfo, held, lastCall, dirs, files, pl, console,
                    a_selection, launchedInPlace, libcPadsYear, dt_in, dt_een >>

\* account.pull_logs(device_info, a_selection-1, start_dt, end_dt)
MainPull(mkdirFails) ==
    /\ pc = "pull"
    /\ PullLogsBegin("main", held[1].ref, a_selection - 1, start_dt, end_dt,
                     mkdirFails)

MainResolve(esn, r) ==
    /\ pc = "constructed"
    /\ lastCall.n = 0
    /\ get_device_info(esn, r, "select")

\* The device-info responses and log responses the whole run is exercised on.
RunResponses ==
    { r \in DeviceResponses :
        \/ Shape(r) # "well_formed"
              /\ r.esn = "e1" /\ r.disks_ips = << >> /\ r.states = {}
        \/ Shape(r) = "well_formed" /\ r.esn = "e1"
              /\ r.states = { << "a1", "ATTD" >>, << "a2", "IDLE" >> }
              /\ Len(r.disks_ips) # 1 }

RunLogOutcomes == { out \in LogOutcomes : Len(out.body) <= 1 }

NextRun ==
    \/ ConstructAny
    \/ \E r \in RunResponses : MainResolve("e1", r)
    \/ \E input \in SelectionInputs : MainSelect(input)
    \/ \E input \in TimeInputs({ PullStart }) : MainStartTime(input)
    \/ \E input \in TimeInputs({ PullEnd }) : MainEndTime(input)
    \/ \E mkdirFails \in BOOLEAN : MainPull(mkdirFails)
    \/ \E out \in RunLogOutcomes : FetchLog(out)

SpecRun == InitPull /\ [][NextRun]_vars

(***************************************************************************)
(* Properties of get_device_info, checked under SpecResolve.               *)
(***************************************************************************)
\* The latest get_device_info call got a 2xx response whose 'data' is empty
\* or malformed (no JSON, no 'data', 'data' no array, a key or a state of the
\* first element absent).
BadDataResponse ==
    /\ lastCall.n > 0
    /\ ~lastCall.err
    /\ Is2xx(lastCall.status)
    /\ lastCall.shape # "well_formed"

\* The latest call returned no record and the process ended in sys.exit(1),
\* no exception escaping.
AbortedWithoutRecord ==
    /\ pc = "exit1"
    /\ lastCall.result = "exit1"
    /\ Len(held) = lastCall.n - 1

C5_KeySets ==
    /\ ~Exited =>
         \A i \in 1..Len(held) :
            LET rec == Deref(held[i].ref)
            IN  /\ Range(rec.archivers) = Keys(rec.archiver_states)
                /\ Range(rec.archivers) = Keys(Range(rec.disk_ips))
                /\ "archiver_states" \in rec.assigned
    /\ (lastCall.n > 0 /\ lastCall.shape = "state_missing"
          /\ ~lastCall.err /\ ~raise_for_status(lastCall.status))
         => AbortedWithoutRecord

C5_Witness ==
    /\ pc = "constructed"
    /\ lastCall.result = "returned"
    /\ Len(held) = 2
    /\ Len(Deref(held[2].ref).archivers) = 2

\* C9: a record is immutable once returned: every record an earlier
\* get_device_info call returned still holds the identifier, archiver list
\* and archiver states of that call's own response.
C9_Claim ==
    ~Exited =>
        \A i \in 1..Len(held) :
            LET rec == Deref(held[i].ref)
            IN  /\ rec.esn = held[i].esn
                /\ rec.archivers = held[i].archivers
                /\ rec.archiver_states = held[i].archiver_states

(***************************************************************************)
(* Properties of pull_logs, checked under SpecPull.                        *)
(***************************************************************************)
\* A pull_logs call has ended: it returned or an exception left it.
PullOver == pl.calls > 0 /\ pc # "pulling"

LogRequests == SelectSeq(requests, LAMBDA q : q.kind = "log")

IndexInRange == 0 <= pl.a /\ pl.a < Len(Deref(pl.ref).archivers)

CategoryPath(i) == log_path(Deref(pl.ref).esn, pl.archiver_name, Categories[i])

FilesAt(fs, path) == { f \in fs : f[1] = path }

\* C1 as stated: when every response of the call carries a status, the call
\* issues one request per category in the order bridge, stream, analog,
\* preview, writes the file of exactly the categories answered 200, leaves
\* the file of every other category as it was, and reports one failure per
\* category not answered 200.
C1_Claim ==
    (PullOver /\ IndexInRange /\ \A i \in 1..Len(pl.got) : ~pl.got[i].err) =>
        /\ [ i \in 1..Len(LogRequests) |-> LogRequests[i].l ] = Categories
        /\ Len(pl.got) = Len(Categories)
        /\ \A i \in 1..Len(pl.got) :
              IF pl.got[i].status = 200
              THEN /\ CategoryPath(i) \in pl.opened
                   /\ FilesAt(files, CategoryPath(i)) # {}
              ELSE /\ CategoryPath(i) \notin pl.opened
                   /\ FilesAt(files, CategoryPath(i)) = FilesAt(pl.before, CategoryPath(i))
        /\ [ i \in 1..Len(console) |-> console[i].kind ] =
             [ i \in 1..Len(pl.got) |->
                 IF pl.got[i].status = 200 THEN "lines" ELSE "status" ]

\* C2 as stated: when the request of a category raises, the call records a
\* failure for that category and still issues the requests of every category.
C2_Claim ==
    (PullOver /\ IndexInRange /\ \E i \in 1..Len(pl.got) : pl.got[i].err) =>
        /\ [ i \in 1..Len(LogRequests) |-> LogRequests[i].l ] = Categories
        /\ pc # "raised"
        /\ \A i \in 1..Len(pl.got) :
              pl.got[i].err => (i <= Len(console) /\ console[i].kind # "lines")

\* C3 as stated: with an archiver index outside [0, len(archivers)) the call
\* fails before any log request is issued and before any log file is opened.
C3_Claim ==
    (pl.calls > 0 /\ ~IndexInRange) =>
        /\ pc = "raised"
        /\ pl.error = "IndexError"
        /\ LogRequests = << >>
        /\ pl.opened = {}

\* C7 as stated: the file of a category answered 200 with N lines holds
\* exactly those N lines, each followed by a newline, and the reported line
\* count is N.
C7_Claim ==
    \A i \in 1..Len(console) :
        (IndexInRange /\ console[i].kind = "lines") =>
            /\ console[i].count = Len(pl.got[i].body)
            /\ FilesAt(files, console[i].path) =
                 { << console[i].path,
                      Concat([ k \in 1..Len(pl.got[i].body) |->
                                 pl.got[i].body[k] \o << "\n" >> ]) >> }

\* C10 as stated: when the loop of pull_logs starts the per-device directory
\* exists, and every file the call opens lies in it, named
\* {esn}.{archiver}_{category}.log.
C10_Claim ==
    (pl.calls > 0 /\ IndexInRange) =>
        LET esn == Deref(pl.ref).esn
            esn_dir == Canon(launchedInPlace, BridgeEsnDir(esn))
        IN  /\ esn_dir \in dirs
            /\ \A path \in pl.opened :
                  /\ Len(path) = Len(esn_dir) + 1
                  /\ Parent(path) = esn_dir

(***************************************************************************)
(* The timestamp encoding, checked under SpecTime.                         *)
(***************************************************************************)
\* C8 as stated: the encoding of every valid datetime is 18 characters: the
\* 14 digits YYYYMMDDHHMMSS with zero-padded fields, a '.', and the leading
\* digits of the microseconds; 2024-03-05 14:30:00.123456 gives
\* "20240305143000.123".
C8_Claim ==
    dt_in # NoDateTime =>
        /\ Len(dt_een) = 18
        /\ dt_een = ZeroPad(dt_in.Y, 4) \o ZeroPad(dt_in.m, 2)
                    \o ZeroPad(dt_in.d, 2) \o ZeroPad(dt_in.H, 2)
                    \o ZeroPad(dt_in.M, 2) \o ZeroPad(dt_in.S, 2) \o << "." >>
                    \o SubSeq(ZeroPad(dt_in.f, 6), 1, 3)
        /\ dt_in = DateTime(2024, 3, 5, 14, 30, 0, 123456) =>
             dt_een = << "2", "0", "2", "4", "0", "3", "0", "5", "1", "4",
                         "3", "0", "0", "0", ".", "1", "2", "3" >>

(***************************************************************************)
(* The order of the run's requests, checked under SpecRun.                 *)
(***************************************************************************)
RunOrder ==
    << "authenticate", "authorize", "device_info", "log", "log", "log", "log" >>

Kinds == [ i \in 1..Len(requests) |-> requests[i].kind ]

\* C6 as stated: the requests of a run are a prefix of authenticate,
\* authorize, device-info, the four log requests, none repeated; a device-info
\* or log request is issued only after the authentication call and the
\* authorization call both returned success (2xx); a non-success status of
\* either call ends the run at that call with a non-zero exit.
C6_Claim ==
    /\ Len(requests) <= Len(RunOrder)
    /\ Kinds = SubSeq(RunOrder, 1, Len(requests))
    /\ [ i \in 1..Len(LogRequests) |-> LogRequests[i].l ]
         = SubSeq(Categories, 1, Len(LogRequests))
    /\ Len(requests) > 2 => (Is2xx(responses[1]) /\ Is2xx(responses[2]))
    /\ \A i \in { 1, 2 } :
          (i <= Len(responses) /\ ~Is2xx(responses[i])) =>
              (pc = "raised" /\ Len(requests) = i)
====
